---- MODULE Spec2Model ----
(***************************************************************************)
(* A model of the two tools of the repository:                             *)
(*   - bench_python.py, the Benchmark Runner (main and its loops);         *)
(*   - tests/test_snapshots.py, the Snapshot Regression Tool               *)
(*     (_compute_snapshot, _write_or_assert and the two tests).            *)
(* The detector, the audio reader and the model loader are external: each  *)
(* call either fails or returns a value drawn from a small set.            *)
(*                                                                         *)
(* Units. Wall-clock durations are integers in centiseconds (10 = 0.10 s). *)
(* Means, audio durations and real-time factors are exact rationals        *)
(* [num, den]. Snapshot timestamps are integers in milliseconds, the grid  *)
(* of round(x, 3).                                                         *)
(***************************************************************************)
EXTENDS Integers, Sequences, FiniteSets, TLC

VARIABLES
    \* ---- Benchmark Runner (bench_python.py) ----
    bpc,            \* position in main(): "start","read","warmup","line83","timed","report","done","failed"
    audio_paths,    \* args.audio
    runs,           \* args.runs
    warmup,         \* args.warmup
    sampling_rate,  \* args.sampling_rate
    model,          \* the loaded model: "none" before load_silero_vad returns
    path_idx,       \* index in args.audio of the file of the current iteration
    numel,          \* audio.numel() of the buffer read for the current file
    audio_duration, \* line 72
    iter_done,      \* iterations completed of the loop over range(...) being run
    timings,        \* line 83: the durations recorded for the current file
    reports,        \* the reports printed so far, in order
    num_threads,    \* the inference thread count of the benchmark process
    log,            \* history: the external calls made and the reports printed, in
                    \* order; a call that raises is followed by a "raise" event
    measured,       \* history: the durations of the timed calls of the current file
    detect_threads, \* history: the thread counts under which detection calls ran
    \* ---- Snapshot Regression Tool (tests/test_snapshots.py) ----
    tpc,            \* position of the test process: "start","idle","assert"
    test_threads,   \* the inference thread count of the test process
    backend,        \* the variant of the running (or last) test: "jit" or "onnx"
    data,           \* the record handed to _write_or_assert; NoRecord outside a test
    snapshot_dir,   \* whether SNAPSHOT_DIR exists
    files,          \* the snapshot files: backend -> the file's text as tokens, or Absent
    outcome,        \* the report of the last finished test: "none","passed","failed"
    existed,        \* history: whether the last finished test found its snapshot file
    created,        \* history: backend -> the record whose run wrote the file, or NoRecord
    tdetect,        \* history: the thread counts under which detection calls ran
    edits           \* number of external edits of snapshot files so far

bvars == <<bpc, audio_paths, runs, warmup, sampling_rate, model, path_idx, numel,
           audio_duration, iter_done, timings, reports, num_threads, log,
           measured, detect_threads>>
tvars == <<tpc, test_threads, backend, data, snapshot_dir, files, outcome,
           existed, created, tdetect, edits>>
vars == <<bvars, tvars>>

----------------------------------------------------------------------------
(* Bounds of the model.                                                    *)
MaxFiles == 2
MaxRuns == 2
MaxWarmup == 1
MaxEdits == 1

(* The inputs the external calls and the command line can produce.         *)
Durations == {10, 20, 30}   \* of one detection call, in centiseconds
Numels == {0, 4}            \* samples in a buffer read_audio returns
SamplingRates == {2}        \* samples per second; positive, as read_audio needs
DefaultThreads == {1, 2}    \* the thread count a process starts with (its cores)
RunsDomain == {0 - 1} \cup (0 .. MaxRuns)
WarmupDomain == {0 - 1} \cup (0 .. MaxWarmup)

----------------------------------------------------------------------------
(* Arithmetic helpers.                                                     *)
RECURSIVE SumSeq(_)
SumSeq(s) == IF s = <<>> THEN 0 ELSE Head(s) + SumSeq(Tail(s))

Rat(n, d) == [num |-> n, den |-> d]
RatEq(a, b) == a.num * b.den = b.num * a.den

\* len(range(n)): the number of iterations of "for _ in range(n)"
RangeLen(n) == IF n > 0 THEN n ELSE 0

\* statistics.mean(timings); defined for a non-empty sequence only
Mean(t) == Rat(SumSeq(t), Len(t))

\* min(timings), max(timings)
Min(t) == CHOOSE x \in {t[i] : i \in 1 .. Len(t)} : \A j \in 1 .. Len(t) : x <= t[j]
Max(t) == CHOOSE x \in {t[i] : i \in 1 .. Len(t)} : \A j \in 1 .. Len(t) : x >= t[j]

\* line 72: audio.numel() / float(args.sampling_rate), in centiseconds
AudioDuration(n, rate) == Rat(n * 100, rate)

\* Rtf without the guard on audio_duration.
RtfUnguarded(mean, dur) ==
    [inf |-> FALSE, num |-> mean.num * dur.den, den |-> mean.den * dur.num]

\* line 98: mean_time / audio_duration if audio_duration else float("inf")
Rtf(mean, dur) ==
    IF dur.num # 0
    THEN [inf |-> FALSE, num |-> mean.num * dur.den, den |-> mean.den * dur.num]
    ELSE [inf |-> TRUE, num |-> 0, den |-> 1]

Event(kind, i) == <<kind, i>>

----------------------------------------------------------------------------
(* Benchmark Runner: main()                                                *)

BenchInit ==
    /\ bpc = "start"
    /\ \E f \in 1 .. MaxFiles : audio_paths = [i \in 1 .. f |-> i]
    /\ runs \in RunsDomain
    /\ warmup \in WarmupDomain
    /\ sampling_rate \in SamplingRates
    /\ model = "none"
    /\ path_idx = 0
    /\ numel = 0
    /\ audio_duration = Rat(0, 1)
    /\ iter_done = 0
    /\ timings = <<>>
    /\ reports = <<>>
    /\ num_threads \in DefaultThreads
    /\ log = <<>>
    /\ measured = <<>>
    /\ detect_threads = {}

\* AfterRead of a warmup loop that tests its bound after the body.
AfterReadWarmsOnce == "warmup"

\* line 74: the warmup loop runs its body, or is over and line 83 is next
AfterRead == IF RangeLen(warmup) > 0 THEN "warmup" ELSE "line83"

\* The head of "for path in args.audio": the next file, or the end of main.
NextFile(i) == IF i < Len(audio_paths) THEN "read" ELSE "done"

\* lines 67-68: load_silero_vad returns
LoadModel ==
    /\ bpc = "start"
    /\ model' = "loaded"
    /\ log' = Append(log, Event("load", 0))
    /\ path_idx' = 0
    /\ bpc' = NextFile(0)
    /\ UNCHANGED <<measured, audio_paths, runs, warmup, sampling_rate, numel, audio_duration,
                   iter_done, timings, reports, num_threads, detect_threads>>
    /\ UNCHANGED tvars

\* lines 67-68: load_silero_vad raises
LoadModelFail ==
    /\ bpc = "start"
    /\ log' = log \o <<Event("load", 0), Event("raise", 0)>>
    /\ bpc' = "failed"
    /\ UNCHANGED <<measured, audio_paths, runs, warmup, sampling_rate, model, path_idx, numel,
                   audio_duration, iter_done, timings, reports, num_threads,
                   detect_threads>>
    /\ UNCHANGED tvars

\* lines 70-72: the next path is taken, read_audio returns a buffer
ReadAudio ==
    /\ bpc = "read"
    /\ path_idx' = path_idx + 1
    /\ \E n \in Numels :
        /\ numel' = n
        /\ audio_duration' = AudioDuration(n, sampling_rate)
    /\ log' = Append(log, Event("read", audio_paths[path_idx + 1]))
    /\ measured' = <<>>
    /\ iter_done' = 0
    /\ bpc' = AfterRead
    /\ UNCHANGED <<audio_paths, runs, warmup, sampling_rate, model, timings, reports,
                   num_threads, detect_threads>>
    /\ UNCHANGED tvars

\* ReadAudioFail with the failure caught and the loop going on to the next file.
ReadAudioFailSkips ==
    /\ bpc = "read"
    /\ path_idx' = path_idx + 1
    /\ log' = log \o <<Event("read", audio_paths[path_idx + 1]),
                       Event("raise", audio_paths[path_idx + 1])>>
    /\ bpc' = IF path_idx + 1 < Len(audio_paths) THEN "read" ELSE "done"
    /\ UNCHANGED <<measured, audio_paths, runs, warmup, sampling_rate, model, numel,
                   audio_duration, iter_done, timings, reports, num_threads,
                   detect_threads>>
    /\ UNCHANGED tvars

\* lines 70-71: read_audio raises
ReadAudioFail ==
    /\ bpc = "read"
    /\ path_idx' = path_idx + 1
    /\ log' = log \o <<Event("read", audio_paths[path_idx + 1]), Event("raise", audio_paths[path_idx + 1])>>
    /\ bpc' = "failed"
    /\ UNCHANGED <<measured, audio_paths, runs, warmup, sampling_rate, model, numel,
                   audio_duration, iter_done, timings, reports, num_threads,
                   detect_threads>>
    /\ UNCHANGED tvars

\* lines 74-81: one iteration of the warmup loop
WarmupCall ==
    /\ bpc = "warmup"
    /\ iter_done' = iter_done + 1
    /\ log' = Append(log, Event("warm", audio_paths[path_idx]))
    /\ detect_threads' = detect_threads \cup {num_threads}
    /\ bpc' = IF iter_done + 1 < RangeLen(warmup) THEN "warmup" ELSE "line83"
    /\ UNCHANGED <<measured, audio_paths, runs, warmup, sampling_rate, model, path_idx, numel,
                   audio_duration, timings, reports, num_threads>>
    /\ UNCHANGED tvars

\* lines 74-81: get_speech_timestamps raises in the warmup loop
WarmupCallFail ==
    /\ bpc = "warmup"
    /\ log' = log \o <<Event("warm", audio_paths[path_idx]), Event("raise", audio_paths[path_idx])>>
    /\ detect_threads' = detect_threads \cup {num_threads}
    /\ bpc' = "failed"
    /\ UNCHANGED <<measured, audio_paths, runs, warmup, sampling_rate, model, path_idx, numel,
                   audio_duration, iter_done, timings, reports, num_threads>>
    /\ UNCHANGED tvars

\* InitTimings with timings created once, before the loop over the files.
InitTimingsKeep ==
    /\ bpc = "line83"
    /\ iter_done' = 0
    /\ bpc' = IF RangeLen(runs) > 0 THEN "timed" ELSE "report"
    /\ UNCHANGED <<measured, audio_paths, runs, warmup, sampling_rate, model, path_idx,
                   numel, audio_duration, timings, reports, num_threads, log,
                   detect_threads>>
    /\ UNCHANGED tvars

\* lines 83-84: timings = [], then the head of the timed loop
InitTimings ==
    /\ bpc = "line83"
    /\ timings' = <<>>
    /\ iter_done' = 0
    /\ bpc' = IF RangeLen(runs) > 0 THEN "timed" ELSE "report"
    /\ UNCHANGED <<measured, audio_paths, runs, warmup, sampling_rate, model, path_idx,
                   numel, audio_duration, reports, num_threads, log, detect_threads>>
    /\ UNCHANGED tvars

\* lines 84-93: one iteration of the timed loop
TimedCall ==
    /\ bpc = "timed"
    /\ \E d \in Durations :
        /\ timings' = Append(timings, d)
        /\ measured' = Append(measured, d)
    /\ iter_done' = iter_done + 1
    /\ log' = Append(log, Event("timed", audio_paths[path_idx]))
    /\ detect_threads' = detect_threads \cup {num_threads}
    /\ bpc' = IF iter_done + 1 < RangeLen(runs) THEN "timed" ELSE "report"
    /\ UNCHANGED <<audio_paths, runs, warmup, sampling_rate, model, path_idx, numel,
                   audio_duration, reports, num_threads>>
    /\ UNCHANGED tvars

\* lines 85-92: get_speech_timestamps raises in the timed loop
TimedCallFail ==
    /\ bpc = "timed"
    /\ log' = log \o <<Event("timed", audio_paths[path_idx]), Event("raise", audio_paths[path_idx])>>
    /\ detect_threads' = detect_threads \cup {num_threads}
    /\ bpc' = "failed"
    /\ UNCHANGED <<measured, audio_paths, runs, warmup, sampling_rate, model, path_idx, numel,
                   audio_duration, iter_done, timings, reports, num_threads>>
    /\ UNCHANGED tvars

\* The report a runner would print for a file with no timed run.
NoDataReport ==
    [path |-> audio_paths[path_idx],
     duration |-> audio_duration,
     runs |-> runs,
     warmup |-> warmup,
     mean |-> Rat(0, 1),
     min |-> 0,
     max |-> 0,
     rtf |-> [inf |-> FALSE, num |-> 0, den |-> 1]]

\* The report of lines 100-108 for the current file.
MakeReport ==
    [path |-> audio_paths[path_idx],
     duration |-> audio_duration,
     runs |-> runs,
     warmup |-> warmup,
     mean |-> Mean(timings),
     min |-> Min(timings),
     max |-> Max(timings),
     rtf |-> Rtf(Mean(timings), audio_duration)]

\* Report that prints zeros when no duration was recorded.
ReportNoData ==
    /\ bpc = "report"
    /\ reports' = Append(reports, IF timings = <<>> THEN NoDataReport ELSE MakeReport)
    /\ log' = Append(log, Event("report", audio_paths[path_idx]))
    /\ bpc' = NextFile(path_idx)
    /\ UNCHANGED <<measured, audio_paths, runs, warmup, sampling_rate, model, path_idx,
                   numel, audio_duration, iter_done, timings, num_threads,
                   detect_threads>>
    /\ UNCHANGED tvars

\* lines 95-108: the aggregates and the printed report
Report ==
    /\ bpc = "report"
    /\ timings # <<>>
    /\ reports' = Append(reports, MakeReport)
    /\ log' = Append(log, Event("report", audio_paths[path_idx]))
    /\ bpc' = NextFile(path_idx)
    /\ UNCHANGED <<measured, audio_paths, runs, warmup, sampling_rate, model, path_idx, numel,
                   audio_duration, iter_done, timings, num_threads, detect_threads>>
    /\ UNCHANGED tvars

\* line 95: statistics.mean([]) raises StatisticsError
ReportFail ==
    /\ bpc = "report"
    /\ timings = <<>>
    /\ log' = log \o <<Event("mean", audio_paths[path_idx]),
                       Event("raise", audio_paths[path_idx])>>
    /\ bpc' = "failed"
    /\ UNCHANGED <<audio_paths, runs, warmup, sampling_rate, model, path_idx, numel,
                   audio_duration, iter_done, timings, reports, num_threads,
                   measured, detect_threads>>
    /\ UNCHANGED tvars

----------------------------------------------------------------------------
(* Snapshot Regression Tool: Python values and JSON text                   *)

\* Python values. A dict keeps its items in insertion order; keys are distinct.
PyStr(s) == [t |-> "str", s |-> s]
PyInt(n) == [t |-> "int", n |-> n]
PyFloat(ms) == [t |-> "float", ms |-> ms]      \* the float ms / 1000
PyList(elems) == [t |-> "list", elems |-> elems]
PyDict(items) == [t |-> "dict", items |-> items]

IsNum(v) == v.t = "int" \/ v.t = "float"
NumMs(v) == IF v.t = "int" THEN v.n * 1000 ELSE v.ms

\* d[k] = v on a dict's items: a present key keeps its place
RECURSIVE DictSet(_, _, _)
DictSet(items, k, v) ==
    IF Len(items) = 0 THEN << <<k, v>> >>
    ELSE IF Head(items)[1] = k THEN << <<k, v>> >> \o Tail(items)
    ELSE <<Head(items)>> \o DictSet(Tail(items), k, v)

\* The order of str on the keys the records use.
KeyOrder == <<"end", "file", "model", "sampling_rate", "snapshots",
              "speech_timestamps", "start">>
KeyRank(k) == CHOOSE i \in 1 .. Len(KeyOrder) : KeyOrder[i] = k

\* sorted(dct.items()) of json's encoder under sort_keys=True
RECURSIVE InsertItem(_, _)
InsertItem(sorted, it) ==
    IF Len(sorted) = 0 THEN <<it>>
    ELSE IF KeyRank(it[1]) < KeyRank(Head(sorted)[1]) THEN <<it>> \o sorted
    ELSE <<Head(sorted)>> \o InsertItem(Tail(sorted), it)
RECURSIVE SortItems(_)
SortItems(items) ==
    IF Len(items) = 0 THEN <<>>
    ELSE InsertItem(SortItems(Tail(items)), Head(items))

\* JSON text as a sequence of lexical tokens.
Tok(k, s, a, b) == [k |-> k, s |-> s, a |-> a, b |-> b]
Punct(c) == Tok(c, "", <<>>, <<>>)
StrTok(s) == Tok("str", s, <<>>, <<>>)
NumTok(a, b) == Tok("num", "", a, b)         \* digits before and after the point
Newline(level, indent) == Tok("ws", "", <<level * indent>>, <<>>)
Space == Tok("ws", "", <<>>, <<>>)

\* The decimal digits of a natural number.
RECURSIVE Digits(_)
Digits(n) == IF n < 10 THEN <<n>> ELSE Append(Digits(n \div 10), n % 10)
RECURSIVE DigitsValue(_)
DigitsValue(d) ==
    IF Len(d) = 0 THEN 0
    ELSE DigitsValue(SubSeq(d, 1, Len(d) - 1)) * 10 + d[Len(d)]

\* float.__repr__ of ms / 1000: the shortest digits that read back the same
RECURSIVE StripZeros(_)
StripZeros(d) ==
    IF Len(d) > 1 /\ d[Len(d)] = 0 THEN StripZeros(SubSeq(d, 1, Len(d) - 1)) ELSE d
Frac3(r) == <<r \div 100, (r \div 10) % 10, r % 10>>
\* FloatRepr that drops the zeros between the point and the first digit.
FloatReprNoPad(ms) == NumTok(Digits(ms \div 1000), StripZeros(Digits(ms % 1000)))
FloatRepr(ms) == NumTok(Digits(ms \div 1000), StripZeros(Frac3(ms % 1000)))

\* int.__repr__
IntRepr(n) == NumTok(Digits(n), <<>>)

\* float(literal) on the millisecond grid; int(literal) when there is no point
RECURSIVE PadRight3(_)
PadRight3(d) == IF Len(d) >= 3 THEN d ELSE PadRight3(Append(d, 0))
ParseNumber(tk) ==
    IF Len(tk.b) = 0 THEN PyInt(DigitsValue(tk.a))
    ELSE PyFloat(DigitsValue(tk.a) * 1000 + DigitsValue(PadRight3(tk.b)))

\* json.dump(v, f, indent=indent, sort_keys=sort): the text written
RECURSIVE Dump(_, _, _, _)
RECURSIVE DumpElems(_, _, _, _, _)
RECURSIVE DumpItems(_, _, _, _, _)
Dump(v, level, indent, sort) ==
    CASE v.t = "str" -> <<StrTok(v.s)>>
      [] v.t = "int" -> <<IntRepr(v.n)>>
      [] v.t = "float" -> <<FloatRepr(v.ms)>>
      [] v.t = "list" ->
            IF Len(v.elems) = 0 THEN <<Punct("["), Punct("]")>>
            ELSE <<Punct("[")>> \o DumpElems(v.elems, 1, level + 1, indent, sort)
                 \o <<Newline(level, indent), Punct("]")>>
      [] v.t = "dict" ->
            IF Len(v.items) = 0 THEN <<Punct("{"), Punct("}")>>
            ELSE <<Punct("{")>>
                 \o DumpItems(IF sort THEN SortItems(v.items) ELSE v.items,
                              1, level + 1, indent, sort)
                 \o <<Newline(level, indent), Punct("}")>>
DumpElems(es, i, level, indent, sort) ==
    IF i > Len(es) THEN <<>>
    ELSE (IF i > 1 THEN <<Punct(",")>> ELSE <<>>)
         \o <<Newline(level, indent)>>
         \o Dump(es[i], level, indent, sort)
         \o DumpElems(es, i + 1, level, indent, sort)
DumpItems(its, i, level, indent, sort) ==
    IF i > Len(its) THEN <<>>
    ELSE (IF i > 1 THEN <<Punct(",")>> ELSE <<>>)
         \o <<Newline(level, indent), StrTok(its[i][1]), Punct(":"), Space>>
         \o Dump(its[i][2], level, indent, sort)
         \o DumpItems(its, i + 1, level, indent, sort)

\* json.load(f): the value a well-formed text denotes
RECURSIVE SkipWs(_, _)
SkipWs(toks, i) == IF i <= Len(toks) /\ toks[i].k = "ws" THEN SkipWs(toks, i + 1) ELSE i
RECURSIVE ParseValue(_, _)
RECURSIVE ParseElems(_, _, _)
RECURSIVE ParseMembers(_, _, _)
ParseValue(toks, i) ==
    LET j == SkipWs(toks, i)
        tk == toks[j]
    IN  CASE tk.k = "str" -> [v |-> PyStr(tk.s), i |-> j + 1]
          [] tk.k = "num" -> [v |-> ParseNumber(tk), i |-> j + 1]
          [] tk.k = "[" -> ParseElems(toks, j + 1, <<>>)
          [] tk.k = "{" -> ParseMembers(toks, j + 1, <<>>)
ParseElems(toks, i, acc) ==
    LET j == SkipWs(toks, i)
    IN  IF toks[j].k = "]" THEN [v |-> PyList(acc), i |-> j + 1]
        ELSE IF toks[j].k = "," THEN ParseElems(toks, j + 1, acc)
        ELSE LET r == ParseValue(toks, j)
             IN  ParseElems(toks, r.i, Append(acc, r.v))
ParseMembers(toks, i, acc) ==
    LET j == SkipWs(toks, i)
    IN  IF toks[j].k = "}" THEN [v |-> PyDict(acc), i |-> j + 1]
        ELSE IF toks[j].k = "," THEN ParseMembers(toks, j + 1, acc)
        ELSE LET c == SkipWs(toks, j + 1)          \* the colon
                 r == ParseValue(toks, c + 1)
             IN  ParseMembers(toks, r.i, DictSet(acc, toks[j].s, r.v))
Load(toks) == ParseValue(toks, 1).v

\* PyEq that compares the items of two dicts position by position.
RECURSIVE PyEqOrdered(_, _)
PyEqOrdered(a, b) ==
    CASE IsNum(a) /\ IsNum(b) -> NumMs(a) = NumMs(b)
      [] a.t = "str" /\ b.t = "str" -> a.s = b.s
      [] a.t = "list" /\ b.t = "list" ->
            /\ Len(a.elems) = Len(b.elems)
            /\ \A i \in 1 .. Len(a.elems) : PyEqOrdered(a.elems[i], b.elems[i])
      [] a.t = "dict" /\ b.t = "dict" ->
            /\ Len(a.items) = Len(b.items)
            /\ \A i \in 1 .. Len(a.items) :
                    /\ b.items[i][1] = a.items[i][1]
                    /\ PyEqOrdered(a.items[i][2], b.items[i][2])
      [] OTHER -> FALSE

\* data == expected on Python values
RECURSIVE PyEq(_, _)
PyEq(a, b) ==
    CASE IsNum(a) /\ IsNum(b) -> NumMs(a) = NumMs(b)
      [] a.t = "str" /\ b.t = "str" -> a.s = b.s
      [] a.t = "list" /\ b.t = "list" ->
            /\ Len(a.elems) = Len(b.elems)
            /\ \A i \in 1 .. Len(a.elems) : PyEq(a.elems[i], b.elems[i])
      [] a.t = "dict" /\ b.t = "dict" ->
            /\ Len(a.items) = Len(b.items)
            /\ \A i \in 1 .. Len(a.items) :
                 \E j \in 1 .. Len(b.items) :
                    /\ b.items[j][1] = a.items[i][1]
                    /\ PyEq(a.items[i][2], b.items[j][2])
      [] OTHER -> FALSE

----------------------------------------------------------------------------
(* Snapshot Regression Tool: the tests                                     *)

Backends == {"jit", "onnx"}
SAMPLES == <<[dir |-> "tests/data", name |-> "test.wav"],
             [dir |-> "tests/data", name |-> "test.opus"],
             [dir |-> "tests/data", name |-> "test.mp3"]>>
DefaultSamplingRate == 16000
Indent == 2
Absent == <<>>
NoRecord == [t |-> "none"]

\* One detected segment, as get_speech_timestamps returns it (return_seconds=True,
\* time_resolution=3): start and end in milliseconds.
Segment(start, end) == PyDict(<< <<"start", PyFloat(start)>>, <<"end", PyFloat(end)>> >>)

\* The detector is external. DetectorOutputs[d][i] is what detector d (a model
\* file and library version) returns for sample i; a test meets any of them.
DetectorOutputs ==
    << <<PyList(<<Segment(34, 1500)>>),
         PyList(<<Segment(500, 1000), Segment(1250, 12000)>>),
         PyList(<<>>)>>,
       <<PyList(<<Segment(34, 1501)>>),
         PyList(<<Segment(500, 1000)>>),
         PyList(<<Segment(0, 2000)>>)>>,
       <<PyList(<<Segment(500, 1000), Segment(1250, 12000)>>),
         PyList(<<>>),
         PyList(<<Segment(7, 250)>>)>> >>

\* lines 29-35: the entry of one sample
SampleEntry(sample, ts) ==
    PyDict(<< <<"file", PyStr(sample.name)>>,
              <<"sampling_rate", PyInt(DefaultSamplingRate)>>,
              <<"speech_timestamps", ts>> >>)

\* lines 18-36: _compute_snapshot, with detector d
ComputeSnapshot(d) ==
    PyList([i \in 1 .. Len(SAMPLES) |-> SampleEntry(SAMPLES[i], DetectorOutputs[d][i])])

\* lines 53-56, 62-65: the record of a test
Record(b, d) ==
    PyDict(<< <<"model", PyStr(b)>>, <<"snapshots", ComputeSnapshot(d)>> >>)

TestIdle ==
    /\ tpc = "start"
    /\ test_threads = 1
    /\ backend = "jit"
    /\ data = NoRecord
    /\ snapshot_dir = FALSE
    /\ files = [b \in Backends |-> Absent]
    /\ outcome = "none"
    /\ existed = FALSE
    /\ created = [b \in Backends |-> NoRecord]
    /\ tdetect = {}
    /\ edits = 0

TestInit ==
    /\ tpc = "start"
    /\ test_threads \in DefaultThreads
    /\ backend = "jit"
    /\ data = NoRecord
    /\ snapshot_dir = FALSE
    /\ files = [b \in Backends |-> Absent]
    /\ outcome = "none"
    /\ existed = FALSE
    /\ created = [b \in Backends |-> NoRecord]
    /\ tdetect = {}
    /\ edits = 0

\* line 8, at the import of the test module: torch.set_num_threads(1)
Import ==
    /\ tpc = "start"
    /\ test_threads' = 1
    /\ tpc' = "idle"
    /\ UNCHANGED <<backend, data, snapshot_dir, files, outcome, existed, created,
                   tdetect, edits>>
    /\ UNCHANGED bvars

\* lines 52-56, 61-65: the model is loaded and the record computed
StartTest(b) ==
    /\ tpc = "idle"
    /\ backend' = b
    /\ \E d \in 1 .. Len(DetectorOutputs) : data' = Record(b, d)
    /\ tdetect' = tdetect \cup {test_threads}
    /\ outcome' = "none"
    /\ existed' = FALSE
    /\ tpc' = "assert"
    /\ UNCHANGED <<test_threads, snapshot_dir, files, created, edits>>
    /\ UNCHANGED bvars

\* lines 52-56, 61-65: load_silero_vad, read_audio or get_speech_timestamps raises
TestError(b) ==
    /\ tpc = "idle"
    /\ backend' = b
    /\ outcome' = "failed"
    /\ existed' = FALSE
    /\ UNCHANGED <<tpc, test_threads, data, snapshot_dir, files, created, tdetect,
                   edits>>
    /\ UNCHANGED bvars

\* AssertSnapshot that replaces the stored snapshot when the comparison fails.
AssertSnapshotUpdates ==
    /\ tpc = "assert"
    /\ files[backend] # Absent
    /\ snapshot_dir' = TRUE
    /\ outcome' = IF PyEq(data, Load(files[backend])) THEN "passed" ELSE "failed"
    /\ files' = IF PyEq(data, Load(files[backend])) THEN files
                ELSE [files EXCEPT ![backend] = Dump(data, 0, Indent, TRUE)]
    /\ existed' = TRUE
    /\ data' = NoRecord
    /\ tpc' = "idle"
    /\ UNCHANGED <<test_threads, backend, created, tdetect, edits>>
    /\ UNCHANGED bvars

\* lines 40-44: the snapshot file exists; it is read and compared
AssertSnapshot ==
    /\ tpc = "assert"
    /\ files[backend] # Absent
    /\ snapshot_dir' = TRUE
    /\ outcome' = IF PyEq(data, Load(files[backend])) THEN "passed" ELSE "failed"
    /\ existed' = TRUE
    /\ data' = NoRecord
    /\ tpc' = "idle"
    /\ UNCHANGED <<test_threads, backend, files, created, tdetect, edits>>
    /\ UNCHANGED bvars

\* CreateSnapshot without the pytest.fail of line 48.
CreateSnapshotPasses ==
    /\ tpc = "assert"
    /\ files[backend] = Absent
    /\ snapshot_dir' = TRUE
    /\ files' = [files EXCEPT ![backend] = Dump(data, 0, Indent, TRUE)]
    /\ created' = [created EXCEPT ![backend] = data]
    /\ outcome' = "passed"
    /\ existed' = FALSE
    /\ data' = NoRecord
    /\ tpc' = "idle"
    /\ UNCHANGED <<test_threads, backend, tdetect, edits>>
    /\ UNCHANGED bvars

\* lines 40-41, 45-48: the snapshot file is absent; it is written and the test fails
CreateSnapshot ==
    /\ tpc = "assert"
    /\ files[backend] = Absent
    /\ snapshot_dir' = TRUE
    /\ files' = [files EXCEPT ![backend] = Dump(data, 0, Indent, TRUE)]
    /\ created' = [created EXCEPT ![backend] = data]
    /\ outcome' = "failed"
    /\ existed' = FALSE
    /\ data' = NoRecord
    /\ tpc' = "idle"
    /\ UNCHANGED <<test_threads, backend, tdetect, edits>>
    /\ UNCHANGED bvars

\* The pytest process ends; the next one starts with the default thread count.
ExitProcess ==
    /\ tpc = "idle"
    /\ tpc' = "start"
    /\ test_threads' \in DefaultThreads
    /\ backend' = "jit"
    /\ outcome' = "none"
    /\ existed' = FALSE
    /\ UNCHANGED <<data, snapshot_dir, files, created, tdetect, edits>>
    /\ UNCHANGED bvars

----------------------------------------------------------------------------
(* The snapshot files as an external input: between test processes an     *)
(* operator may delete a file or rewrite it by hand.                       *)

Get(v, k) == v.items[CHOOSE i \in 1 .. Len(v.items) : v.items[i][1] = k][2]
Put(v, k, x) == PyDict(DictSet(v.items, k, x))
SetElem(l, i, x) == PyList([l.elems EXCEPT ![i] = x])
Reverse(q) == [i \in 1 .. Len(q) |-> q[Len(q) + 1 - i]]

\* The same value with the items of every dict in the opposite order.
RECURSIVE ReverseKeys(_)
ReverseKeys(v) ==
    CASE v.t = "dict" ->
            PyDict(Reverse([i \in 1 .. Len(v.items) |->
                               <<v.items[i][1], ReverseKeys(v.items[i][2])>>]))
      [] v.t = "list" -> PyList([i \in 1 .. Len(v.elems) |-> ReverseKeys(v.elems[i])])
      [] OTHER -> v

Snapshots(v) == Get(v, "snapshots")
EditSample(v, i, k, x) ==
    Put(v, "snapshots", SetElem(Snapshots(v), i, Put(Snapshots(v).elems[i], k, x)))
Timestamps(v, i) == Get(Snapshots(v).elems[i], "speech_timestamps")

EditKinds == {"reorder", "compact", "ratefloat", "model", "file", "rate", "time",
              "count", "order", "tsorder"}

\* Whether the edit applies to record v.
CanEdit(kind, v) ==
    CASE kind = "tsorder" -> Len(Timestamps(v, 1).elems) >= 2
      [] kind = "time" -> Len(Timestamps(v, 1).elems) >= 1
      [] kind \in {"file", "rate", "ratefloat", "count"} -> Len(Snapshots(v).elems) >= 1
      [] kind = "order" -> Len(Snapshots(v).elems) >= 2
      [] OTHER -> TRUE

\* The record the edited text denotes.
Edited(kind, v) ==
    CASE kind = "reorder" -> ReverseKeys(v)
      [] kind = "compact" -> v
      [] kind = "ratefloat" ->
            EditSample(v, 1, "sampling_rate", PyFloat(DefaultSamplingRate * 1000))
      [] kind = "model" -> Put(v, "model", PyStr("edited"))
      [] kind = "file" -> EditSample(v, 1, "file", PyStr("edited.wav"))
      [] kind = "rate" -> EditSample(v, 1, "sampling_rate", PyInt(DefaultSamplingRate \div 2))
      [] kind = "time" ->
            LET ts == Timestamps(v, 1)
                seg == ts.elems[1]
            IN  EditSample(v, 1, "speech_timestamps",
                           SetElem(ts, 1, Put(seg, "end", PyFloat(Get(seg, "end").ms + 1))))
      [] kind = "count" ->
            Put(v, "snapshots",
                PyList(SubSeq(Snapshots(v).elems, 1, Len(Snapshots(v).elems) - 1)))
      [] kind = "order" ->
            LET e == Snapshots(v).elems
            IN  Put(v, "snapshots", PyList([e EXCEPT ![1] = e[2], ![2] = e[1]]))
      [] kind = "tsorder" ->
            EditSample(v, 1, "speech_timestamps", PyList(Reverse(Timestamps(v, 1).elems)))

\* The text of the edited file: hand-ordered keys, or no indentation.
EditedText(kind, v) ==
    Dump(Edited(kind, v), 0, IF kind = "compact" THEN 0 ELSE Indent, kind # "reorder")

EditFile(b) ==
    /\ tpc = "start"
    /\ edits < MaxEdits
    /\ files[b] # Absent
    /\ LET v == Load(files[b])
       IN  \E kind \in EditKinds :
              /\ CanEdit(kind, v)
              /\ files' = [files EXCEPT ![b] = EditedText(kind, v)]
    /\ created' = [created EXCEPT ![b] = NoRecord]
    /\ edits' = edits + 1
    /\ UNCHANGED <<tpc, test_threads, backend, data, snapshot_dir, outcome, existed,
                   tdetect>>
    /\ UNCHANGED bvars

DeleteFile(b) ==
    /\ tpc = "start"
    /\ files[b] # Absent
    /\ files' = [files EXCEPT ![b] = Absent]
    /\ created' = [created EXCEPT ![b] = NoRecord]
    /\ UNCHANGED <<tpc, test_threads, backend, data, snapshot_dir, outcome, existed,
                   tdetect, edits>>
    /\ UNCHANGED bvars

BenchIdle ==
    /\ bpc = "start"
    /\ audio_paths = <<1>>
    /\ runs = 1
    /\ warmup = 0
    /\ sampling_rate = 1
    /\ model = "none"
    /\ path_idx = 0
    /\ numel = 0
    /\ audio_duration = Rat(0, 1)
    /\ iter_done = 0
    /\ timings = <<>>
    /\ reports = <<>>
    /\ num_threads = 1
    /\ log = <<>>
    /\ measured = <<>>
    /\ detect_threads = {}

----------------------------------------------------------------------------
(* The Benchmark Runner alone: one process, from its command line to exit. *)
InitBench == BenchInit /\ TestIdle
NextBench ==
    \/ LoadModel
    \/ LoadModelFail
    \/ ReadAudio
    \/ ReadAudioFail
    \/ WarmupCall
    \/ WarmupCallFail
    \/ InitTimings
    \/ TimedCall
    \/ TimedCallFail
    \/ Report
    \/ ReportFail
SpecBench == InitBench /\ [][NextBench]_vars

(* The Snapshot Regression Tool alone: any sequence of test processes.     *)
InitSnap == BenchIdle /\ TestInit
NextSnap ==
    \/ Import
    \/ \E b \in Backends : StartTest(b)
    \/ \E b \in Backends : TestError(b)
    \/ AssertSnapshot
    \/ CreateSnapshot
    \/ ExitProcess
SpecSnap == InitSnap /\ [][NextSnap]_vars

(* The Snapshot Regression Tool with an operator who deletes and edits     *)
(* snapshot files between tests.                                           *)
NextSnapEnv ==
    \/ NextSnap
    \/ \E b \in Backends : EditFile(b)
    \/ \E b \in Backends : DeleteFile(b)
SpecSnapEnv == InitSnap /\ [][NextSnapEnv]_vars

----------------------------------------------------------------------------
(* Properties of the Snapshot Regression Tool                              *)

\* The structure a Python value denotes: a dict as a function of its keys (no
\* order), a list as a sequence, a number by its value.
RECURSIVE Canon(_)
Canon(v) ==
    CASE v.t = "dict" ->
            [k \in {v.items[i][1] : i \in 1 .. Len(v.items)} |-> Canon(Get(v, k))]
      [] v.t = "list" -> [i \in 1 .. Len(v.elems) |-> Canon(v.elems[i])]
      [] v.t = "str" -> <<"str", v.s>>
      [] OTHER -> <<"num", NumMs(v)>>

\* A step in which _write_or_assert runs.
WriteOrAssertStep == tpc = "assert" /\ tpc' = "idle"

\* C1: a test that finds its snapshot file absent writes the file with exactly
\* the record it computed and is reported as failed; a test that finds the file
\* a previous test wrote, and computes the same record, is reported as passed;
\* and a test is reported as passed only if the file existed when
\* _write_or_assert looked for it.
C1_CreateFailsThenPasses ==
    [][WriteOrAssertStep =>
        /\ files[backend] = Absent =>
              /\ outcome' = "failed"
              /\ files'[backend] # Absent
              /\ Canon(Load(files'[backend])) = Canon(data)
        /\ (files[backend] # Absent /\ created[backend].t # "none"
                /\ created[backend] = data) => outcome' = "passed"
        /\ outcome' = "passed" => files[backend] # Absent]_vars
C1_Witness ==
    /\ outcome = "passed"
    /\ existed
    /\ backend = "onnx"
    /\ created["onnx"].t # "none"

\* C2: with no external deletion or edit, a snapshot file that exists is never
\* changed or removed by a test, whether the comparison passes or fails; a file
\* changes only in a test that found it absent.
C2_FileWrittenOnce ==
    [][\A b \in Backends :
          /\ files[b] # Absent => files'[b] = files[b]
          /\ files'[b] # files[b] => (WriteOrAssertStep /\ b = backend)]_vars
C2_Witness ==
    /\ outcome = "failed"
    /\ existed
    /\ files[backend] # Absent

\* C3: when the snapshot file is present the test passes if and only if the
\* computed record and the stored one denote the same structure: equal leaves,
\* equal numbers of entries in equal order, whatever the order of the keys in
\* the file's objects.
C3_PassIffStructurallyEqual ==
    [][(WriteOrAssertStep /\ files[backend] # Absent) =>
          (outcome' = "passed" <=> Canon(data) = Canon(Load(files[backend])))]_vars
\* A test passed against a file an operator rewrote with its keys reordered.
C3_Witness ==
    /\ outcome = "passed"
    /\ existed
    /\ Len(files[backend]) > 3
    /\ files[backend][3].s = "snapshots"

\* C4: reading back a file a test wrote yields the record that test computed,
\* and the comparison of the two finds them equal.
C4_RoundTrip ==
    \A b \in Backends :
        files[b] # Absent =>
            /\ Canon(Load(files[b])) = Canon(created[b])
            /\ PyEq(created[b], Load(files[b]))
C4_Witness ==
    /\ files["jit"] # Absent
    /\ files["onnx"] # Absent
    /\ Len(Timestamps(created["jit"], 1).elems) = 2
    /\ Len(Timestamps(created["onnx"], 3).elems) = 1

----------------------------------------------------------------------------
(* Properties of the Benchmark Runner                                      *)

IsPrefix(p, q) == Len(p) <= Len(q) /\ SubSeq(q, 1, Len(p)) = p
Repeat(e, n) == [i \in 1 .. n |-> e]
Count(kind, q) == Cardinality({i \in 1 .. Len(q) : q[i][1] = kind})
CountFor(kind, p, q) == Cardinality({i \in 1 .. Len(q) : q[i] = Event(kind, p)})
LastReport == reports[Len(reports)]
\* A report has just been printed for the file at path_idx.
JustReported == bpc \in {"read", "done"} /\ path_idx >= 1

FileEvents(p) ==
    <<Event("read", p)>> \o Repeat(Event("warm", p), warmup)
        \o Repeat(Event("timed", p), runs) \o <<Event("report", p)>>
RECURSIVE ExpectedFrom(_)
ExpectedFrom(i) ==
    IF i > Len(audio_paths) THEN <<>>
    ELSE FileEvents(audio_paths[i]) \o ExpectedFrom(i + 1)
ExpectedLog == <<Event("load", 0)>> \o ExpectedFrom(1)
Calls == SelectSeq(log, LAMBDA e : e[1] # "raise")

\* C7: with warmup >= 0 and runs >= 1 the run is, at every moment, a prefix of:
\* one model load, then per file in input order one read, `warmup` detection
\* calls, `runs` detection calls each recording one duration, and the report.
\* A run that completes made all of it: F reports in input order and
\* F * (warmup + runs) detection calls.
C7_Protocol ==
    (warmup >= 0 /\ runs >= 1) =>
        /\ IsPrefix(Calls, ExpectedLog)
        /\ bpc \notin {"start", "failed"} => model = "loaded"
        /\ model = "loaded" => Count("load", log) = 1
        /\ bpc \in {"warmup", "line83"} => CountFor("timed", audio_paths[path_idx], log) = 0
        /\ bpc \in {"timed", "report"} =>
              Len(timings) = CountFor("timed", audio_paths[path_idx], log)
        /\ Len(reports) = Count("report", log)
        /\ bpc = "done" =>
              /\ log = ExpectedLog
              /\ Len(reports) = Len(audio_paths)
              /\ \A i \in 1 .. Len(reports) : reports[i].path = audio_paths[i]
              /\ Count("warm", log) + Count("timed", log)
                    = Len(audio_paths) * (warmup + runs)
C7_Witness ==
    /\ bpc = "done"
    /\ Len(audio_paths) = 2
    /\ warmup = 1
    /\ runs = 2
    /\ Len(log) = 11

\* C8: both tools run every detection call with the inference thread count
\* pinned to one.
C8_SingleThread ==
    /\ \A t \in detect_threads : t = 1
    /\ \A t \in tdetect : t = 1

\* C9: a failing model load, read or detection call ends the run there: it is
\* the last thing the run did; the files before it have their reports, in
\* order; the file it failed on has none; no later file was read and no call
\* was made again.
C9_NoIsolation ==
    /\ bpc = "failed" <=> Count("raise", log) > 0
    /\ \A i \in 1 .. Len(log) : log[i][1] = "raise" => i = Len(log)
    /\ bpc = "failed" =>
          /\ ~ENABLED NextBench
          /\ \A k \in 1 .. Len(reports) : reports[k].path = audio_paths[k]
          /\ Count("report", log) = Len(reports)
          /\ Count("read", log) = path_idx
          /\ \A i \in 1 .. Len(audio_paths) :
                CountFor("read", audio_paths[i], log) = IF i <= path_idx THEN 1 ELSE 0
          /\ path_idx = 0 =>
                /\ log = <<Event("load", 0), Event("raise", 0)>>
                /\ reports = <<>>
          /\ path_idx >= 1 =>
                /\ Len(reports) = path_idx - 1
                /\ log[Len(log)] = Event("raise", audio_paths[path_idx])
C9_Witness ==
    /\ bpc = "failed"
    /\ path_idx = 2
    /\ Len(reports) = 1
    /\ log[Len(log) - 1] = Event("timed", audio_paths[2])
    /\ Len(timings) = 1

\* C10: with runs < 1 no report is ever printed: on the first file, after the
\* read and the warmup calls, statistics.mean raises on the empty sequence and
\* the run ends in failure.
C10_EmptyAggregateFails ==
    /\ \A k \in 1 .. Len(reports) : reports[k].runs >= 1 /\ reports[k].mean.den >= 1
    /\ runs < 1 =>
          /\ reports = <<>>
          /\ bpc # "done"
          /\ path_idx <= 1
          /\ Count("timed", log) = 0
          /\ bpc = "report" => timings = <<>>
          /\ (bpc = "failed" /\ Count("mean", log) > 0) =>
                log = <<Event("load", 0), Event("read", audio_paths[1])>>
                        \o Repeat(Event("warm", audio_paths[1]),
                                  IF warmup > 0 THEN warmup ELSE 0)
                        \o <<Event("mean", audio_paths[1]),
                             Event("raise", audio_paths[1])>>
C10_Witness ==
    /\ runs = 0
    /\ warmup = 1
    /\ bpc = "failed"
    /\ Len(log) = 5
    /\ log[4] = Event("mean", audio_paths[1])

====
